---- MODULE Spec2Model ----
(***************************************************************************)
(* Model of mfro/control-panel (src/src/main.rs): the audio endpoint cache *)
(* (AudioManager), the lock policy (WindowHelper::on_lock / on_unlock),    *)
(* the repaint (WindowHelper::on_paint) and the icon descriptor decoding   *)
(* (load_icon), together with the parts of the operating system they talk  *)
(* to: the mute state of every endpoint, the default endpoint of the two   *)
(* roles and the icon descriptor in every endpoint's property store.       *)
(*                                                                         *)
(* Every handler runs on the UI thread from window_proc through wrap, which*)
(* holds the mutex for the whole call, so one handler call is one action.  *)
(* An OS call that can return an error is given one fault point; a handler *)
(* stops at its first error (the ? operator), so a call takes at most one  *)
(* fault, chosen by the environment.                                       *)
(***************************************************************************)
EXTENDS Integers, Sequences, FiniteSets, TLC

\* ------------------------------------------------------------------ universe

\* EDataFlow: eRender, eCapture
Roles == {"render", "capture"}

\* the endpoints of the machine, each of one data flow
RenderDevices == {"A", "A2"}
CaptureDevices == {"B"}
Devices == RenderDevices \cup CaptureDevices
NoDevice == "none"

DevicesOf(flow) == IF flow = "render" THEN RenderDevices ELSE CaptureDevices

\* longest icon descriptor the property store hands out in the model
MaxLen == 3

Digits == {"0", "1", "2", "3", "4", "5", "6", "7", "8", "9"}
IconAlphabet == {"a", ",", "1", "-"}
IconStrings == UNION {[1..n -> IconAlphabet] : n \in 0..MaxLen}

\* PKEY_DeviceClass_IconPath of every endpoint in the main specification
IconEnv ==
    [d \in Devices |->
        CASE d = "A"  -> <<"a", ",", "1">>
          [] d = "A2" -> <<"a">>
          [] d = "B"  -> <<"a", ",", "1">>]

\* ------------------------------------------------------------------ state

VARIABLES
    mute,                \* OS: the mute flag of every endpoint (GetMute / SetMute)
    mutedBy,             \* history: who set the current mute, "user" | "policy" | "none"
    defaultDev,          \* OS: the default endpoint of each role, or NoDevice
    iconPath,            \* OS: the icon descriptor of every endpoint
    devices,             \* AudioManager.devices: id -> AudioDevice
    unlock_mute_output,  \* AudioManager.unlock_mute_output
    unlock_mute_input,   \* AudioManager.unlock_mute_input
    registered,          \* OS: successful RegisterControlChangeNotify calls per endpoint
    call                 \* history: the last call dispatched by window_proc and its outcome

\* the process around the handlers: main, run, the window, the threads
VARIABLES
    ui,                  \* main thread: where main / run is
    classRegistered,     \* OS: the window class of create_window is registered
    hwnd,                \* OS: the window of create_window, "none" | "alive" | "destroyed"
    helper,              \* WINDOW_HELPER: "none" | "some"
    mutex,               \* the Mutex around WindowHelper: "free" | "held"
    handlers,            \* the handlers being executed, innermost last
    subscribed,          \* OS: the notification callbacks of the AudioManager are registered
    dirty,               \* OS: the window has an invalid region (InvalidateRect)
    tick,                \* the periodic redraw thread, "none" before it is spawned
    cb,                  \* the OS thread that delivers audio notifications
    lastCb,              \* history: the last notification delivered, and whether it called redraw
    lastHandler,         \* history: the last handler wrap ran, and how it ended
    lastRun              \* history: how the last run() ended

\* the OS's side of the per-endpoint subscriptions and of the shutdown
VARIABLES
    pending,             \* OS: endpoints with a mute change whose OnNotify is not yet delivered
    released             \* OS: the release calls of AudioManager::destroy that succeeded, in order

audioVars == <<mute, mutedBy, defaultDev, iconPath, devices, unlock_mute_output,
               unlock_mute_input, registered, call>>

procVars == <<ui, classRegistered, hwnd, helper, mutex, handlers, subscribed, dirty,
              tick, cb, lastCb, lastHandler, lastRun>>

lifeVars == <<pending, released>>

vars == <<audioVars, procVars, lifeVars>>

\* ------------------------------------------------------------------ load_icon

Err == [ok |-> FALSE]

\* index of the first comma of s, 0 when there is none
FirstComma(s) ==
    IF \E i \in 1..Len(s) : s[i] = ","
    THEN CHOOSE i \in 1..Len(s) : s[i] = "," /\ \A j \in 1..(i - 1) : s[j] # ","
    ELSE 0

\* str::split(","): the parts between the commas, always at least one
RECURSIVE Split(_)
Split(s) ==
    LET i == FirstComma(s)
    IN  IF i = 0 THEN <<s>>
        ELSE <<SubSeq(s, 1, i - 1)>> \o Split(SubSeq(s, i + 1, Len(s)))

DigitVal(c) ==
    CASE c = "0" -> 0 [] c = "1" -> 1 [] c = "2" -> 2 [] c = "3" -> 3 [] c = "4" -> 4
      [] c = "5" -> 5 [] c = "6" -> 6 [] c = "7" -> 7 [] c = "8" -> 8 [] c = "9" -> 9

RECURSIVE Decimal(_)
Decimal(t) == IF t = <<>> THEN 0 ELSE 10 * Decimal(SubSeq(t, 1, Len(t) - 1)) + DigitVal(t[Len(t)])

I32Max == 2147483647

\* str::parse::<i32>(): an optional sign, then one or more digits, within i32
ParseI32(t) ==
    LET signed == Len(t) > 0 /\ t[1] \in {"+", "-"}
        body == IF signed THEN Tail(t) ELSE t
    IN  IF Len(body) = 0 \/ \E i \in 1..Len(body) : body[i] \notin Digits THEN Err
        ELSE LET v == IF signed /\ t[1] = "-" THEN 0 - Decimal(body) ELSE Decimal(body)
             IN  IF v > I32Max \/ v < 0 - I32Max - 1 THEN Err
                 ELSE [ok |-> TRUE, value |-> v]

\* load_icon with a parse error of the index read as index 0
load_icon_lenient(icon_path) ==
    LET parts == Split(icon_path)
        p == IF Len(parts) >= 2 THEN ParseI32(parts[2]) ELSE Err
    IN  [ok |-> TRUE,
         icon |-> [path |-> parts[1], index |-> IF p.ok THEN p.value ELSE 0]]

\* load_icon: the path is the first part, the index the second (0 when there
\* is no second part); the result of ExtractIconExA is not looked at
load_icon(icon_path) ==
    LET parts == Split(icon_path)
    IN  IF Len(parts) = 0 THEN Err
        ELSE IF Len(parts) >= 2
             THEN LET p == ParseI32(parts[2])
                  IN  IF ~p.ok THEN Err
                      ELSE [ok |-> TRUE, icon |-> [path |-> parts[1], index |-> p.value]]
             ELSE [ok |-> TRUE, icon |-> [path |-> parts[1], index |-> 0]]

\* ------------------------------------------------------------------ faults

\* the OS calls of one role's part of a handler that can return an error
RoleFaultKinds == {"resolve", "props", "value", "activate", "register", "get_mute"}
NoFault == <<"none", "none">>
LockFaults == {NoFault} \cup (Roles \X (RoleFaultKinds \cup {"set_mute"}))
PaintFaults == {NoFault} \cup (Roles \X (RoleFaultKinds \cup {"draw"}))
                  \cup {<<"window", "rect">>, <<"window", "update">>}

\* the fault that hits role r's part of the call, "none" when there is none
KindFor(f, r) == IF f[1] = r THEN f[2] ELSE "none"

\* ------------------------------------------------------------------ AudioManager

\* the state a handler works on: the AudioManager behind the mutex, the OS
\* state its calls change, and the OS calls the handler has issued so far
World ==
    [mute |-> mute, mutedBy |-> mutedBy, devices |-> devices,
     unlock_mute_output |-> unlock_mute_output,
     unlock_mute_input |-> unlock_mute_input,
     registered |-> registered, os |-> {}, fired |-> FALSE]

Log(w, c) == [w EXCEPT !.os = @ \cup {c}]
\* the OS call just issued returns the error the environment chose for this call
Fault(w) == [ok |-> FALSE, w |-> [w EXCEPT !.fired = TRUE]]
Fail(w) == [ok |-> FALSE, w |-> w]
Done(w) == [ok |-> TRUE, w |-> w]

\* AudioDevice::new
AudioDevice(controls, icon) == [controls |-> controls, icon |-> icon]

\* HashMap::insert that drops the entries of the other keys
Insert_evicting(map, id, info) == [k \in {id} |-> info]

\* HashMap::insert
Insert(map, id, info) ==
    [k \in DOMAIN map \cup {id} |-> IF k = id THEN info ELSE map[k]]

\* AudioManager::get_default_device: asks the OS every time
get_default_device(w, flow, fk) ==
    LET w1 == Log(w, <<"GetDefaultAudioEndpoint", flow>>)
    IN  IF defaultDev[flow] = NoDevice THEN Fail(w1) @@ [device |-> NoDevice]
        ELSE IF fk = "resolve" THEN Fault(w1) @@ [device |-> NoDevice]
        ELSE Done(w1) @@ [device |-> defaultDev[flow]]

\* first-time tracking without RegisterControlChangeNotify
get_device_untracked_unsubscribed(w, device, fk) ==
    LET w1 == Log(w, <<"GetValue", device>>)
        w2 == Log(w1, <<"load_icon", device>>)
        ic == load_icon(iconPath[device])
        w3 == Log(w2, <<"Activate", device>>)
        w5 == [w3 EXCEPT !.devices = Insert(@, device, AudioDevice(device, ic.icon))]
    IN  IF fk = "value" THEN Fault(w1)
        ELSE IF ~ic.ok THEN Fail(w2)
        ELSE IF fk = "activate" THEN Fault(w3)
        ELSE Done(w5)

\* get_device, the body of `if !self.devices.contains_key(&id)`: first-time tracking
get_device_untracked(w, device, fk) ==
    LET w1 == Log(w, <<"GetValue", device>>)
        w2 == Log(w1, <<"load_icon", device>>)
        ic == load_icon(iconPath[device])
        w3 == Log(w2, <<"Activate", device>>)
        w4 == Log(w3, <<"RegisterControlChangeNotify", device>>)
        w5 == [w4 EXCEPT !.registered[device] = @ + 1,
                         !.devices = Insert(@, device, AudioDevice(device, ic.icon))]
    IN  IF fk = "value" THEN Fault(w1)
        ELSE IF ~ic.ok THEN Fail(w2)
        ELSE IF fk = "activate" THEN Fault(w3)
        ELSE IF fk = "register" THEN Fault(w4)
        ELSE Done(w5)

\* get_device that inserts the entry before the icon is loaded
get_device_early_insert(w, device, fk) ==
    LET w0 == Log(w, <<"OpenPropertyStore", device>>)
        w1 == [w0 EXCEPT !.devices =
                  IF device \in DOMAIN @ THEN @
                  ELSE Insert(@, device, AudioDevice(device, [path |-> <<>>, index |-> 0]))]
        t  == get_device_untracked(w1, device, fk)
    IN  IF fk = "props" THEN Fault(w0)
        ELSE IF device \in DOMAIN w0.devices THEN Done(w0)
        ELSE IF t.ok THEN t ELSE [t EXCEPT !.w.devices = w1.devices]

\* get_device without the contains_key test
get_device_no_memo(w, device, fk) ==
    LET w0 == Log(w, <<"OpenPropertyStore", device>>)
    IN  IF fk = "props" THEN Fault(w0) ELSE get_device_untracked(w0, device, fk)

\* AudioManager::get_device: the cached entry of the device, created on first use
get_device(w, device, fk) ==
    LET w0 == Log(w, <<"OpenPropertyStore", device>>)
    IN  IF fk = "props" THEN Fault(w0)
        ELSE IF device \in DOMAIN w0.devices THEN Done(w0)
        ELSE get_device_untracked(w0, device, fk)

\* AudioDevice::is_mute: GetMute on the entry's control
is_mute(w, dev, fk) ==
    LET w1 == Log(w, <<"GetMute", dev.controls>>)
    IN  IF fk = "get_mute" THEN Fault(w1) @@ [value |-> FALSE]
        ELSE Done(w1) @@ [value |-> w.mute[dev.controls]]

\* set_mute that sets the mute state of every endpoint
set_mute_all(w, dev, value, fk) ==
    LET w1 == Log(w, <<"SetMute", dev.controls>>)
    IN  IF fk = "set_mute" THEN Fault(w1)
        ELSE Done([w1 EXCEPT !.mute = [d \in Devices |-> value],
                             !.mutedBy = [d \in Devices |-> IF value THEN "policy" ELSE "none"]])

\* AudioDevice::set_mute: SetMute on the entry's control
set_mute(w, dev, value, fk) ==
    LET w1 == Log(w, <<"SetMute", dev.controls>>)
    IN  IF fk = "set_mute" THEN Fault(w1)
        ELSE Done([w1 EXCEPT !.mute[dev.controls] = value,
                             !.mutedBy[dev.controls] = IF value THEN "policy" ELSE "none"])

\* the calls of AudioManager::destroy that can return an error
DestroyFaults ==
    {NoFault} \cup {<<"enumerator", "UnregisterEndpointNotificationCallback">>}
              \cup (Devices \X {"UnregisterControlChangeNotify", "DestroyIcon"})

\* the orders in which `for (_, device) in self.devices` can yield the entries
Orders(ids) ==
    {o \in [1..Cardinality(ids) -> ids] : \A i, j \in DOMAIN o : o[i] = o[j] => i = j}

\* the loop of destroy over the entries in the given order: for each one
\* UnregisterControlChangeNotify?, then DestroyIcon?; calls are the release
\* calls that succeeded, up to the one that returned the error f
RECURSIVE destroy_devices(_, _)
destroy_devices(order, f) ==
    IF order = <<>> THEN [ok |-> TRUE, calls |-> <<>>, fired |-> FALSE]
    ELSE IF f = <<Head(order), "UnregisterControlChangeNotify">>
    THEN [ok |-> FALSE, calls |-> <<>>, fired |-> TRUE]
    ELSE IF f = <<Head(order), "DestroyIcon">>
    THEN [ok |-> FALSE, calls |-> << <<"UnregisterControlChangeNotify", Head(order)>> >>,
          fired |-> TRUE]
    ELSE [destroy_devices(Tail(order), f) EXCEPT
              !.calls = << <<"UnregisterControlChangeNotify", Head(order)>>,
                           <<"DestroyIcon", Head(order)>> >> \o @]

\* AudioManager::destroy: UnregisterEndpointNotificationCallback?, then the
\* loop; endpoint tells whether the device callback was unregistered
destroy(order, f) ==
    IF f = <<"enumerator", "UnregisterEndpointNotificationCallback">>
    THEN [ok |-> FALSE, calls |-> <<>>, fired |-> TRUE, endpoint |-> FALSE]
    ELSE destroy_devices(order, f) @@ [endpoint |-> TRUE]

\* the release call c of endpoint d is among the calls
Called(calls, c, d) == \E i \in DOMAIN calls : calls[i] = <<c, d>>

\* the force-muted flag of a role
Flag(w, flow) == IF flow = "render" THEN w.unlock_mute_output ELSE w.unlock_mute_input
SetFlag(w, flow, v) ==
    IF flow = "render" THEN [w EXCEPT !.unlock_mute_output = v]
    ELSE [w EXCEPT !.unlock_mute_input = v]

\* ------------------------------------------------------------------ WindowHelper

\* the outcome of one role's part of a handler
RoleDone(w) == [ok |-> TRUE, w |-> w, drawn |-> FALSE, overlay |-> FALSE]
RoleFail(w) == [ok |-> FALSE, w |-> w, drawn |-> FALSE, overlay |-> FALSE]

\* the ? operator: an error of r is returned at once, otherwise the rest runs
Try(r, rest(_)) == IF ~r.ok THEN RoleFail(r.w) ELSE rest(r)

\* one role's part of on_lock that clears the flag of a device found muted
LockRole_clearing(w, flow, fk) ==
    Try(get_default_device(w, flow, fk), LAMBDA o :
    Try(get_device(o.w, o.device, fk), LAMBDA g :
    Try(is_mute(g.w, g.w.devices[o.device], fk), LAMBDA m :
        IF ~m.value
        THEN Try(set_mute(m.w, m.w.devices[o.device], TRUE, fk), LAMBDA s :
                 RoleDone(SetFlag(s.w, flow, TRUE)))
        ELSE RoleDone(SetFlag(m.w, flow, FALSE)))))

\* one role's part of on_lock that sets the flag whether or not it muted the device
LockRole_always_flag(w, flow, fk) ==
    Try(get_default_device(w, flow, fk), LAMBDA o :
    Try(get_device(o.w, o.device, fk), LAMBDA g :
    Try(is_mute(g.w, g.w.devices[o.device], fk), LAMBDA m :
        IF ~m.value
        THEN Try(set_mute(m.w, m.w.devices[o.device], TRUE, fk), LAMBDA s :
                 RoleDone(SetFlag(s.w, flow, TRUE)))
        ELSE RoleDone(SetFlag(m.w, flow, TRUE)))))

\* one role's part of on_lock that mutes the device and does not set the flag
LockRole_no_flag(w, flow, fk) ==
    Try(get_default_device(w, flow, fk), LAMBDA o :
    Try(get_device(o.w, o.device, fk), LAMBDA g :
    Try(is_mute(g.w, g.w.devices[o.device], fk), LAMBDA m :
        IF ~m.value
        THEN Try(set_mute(m.w, m.w.devices[o.device], TRUE, fk), LAMBDA s :
                 RoleDone(s.w))
        ELSE RoleDone(m.w))))

\* one role's part of on_lock: mute the role's default device when it is not
\* muted, and remember that in the role's flag
LockRole(w, flow, fk) ==
    Try(get_default_device(w, flow, fk), LAMBDA o :
    Try(get_device(o.w, o.device, fk), LAMBDA g :
    Try(is_mute(g.w, g.w.devices[o.device], fk), LAMBDA m :
        IF ~m.value
        THEN Try(set_mute(m.w, m.w.devices[o.device], TRUE, fk), LAMBDA s :
                 RoleDone(SetFlag(s.w, flow, TRUE)))
        ELSE RoleDone(m.w))))

\* the body of one role's part of on_unlock, run when the role's flag is set
UnlockFlagged(w, flow, fk) ==
    Try(get_default_device(w, flow, fk), LAMBDA o :
    Try(get_device(o.w, o.device, fk), LAMBDA g :
    Try(is_mute(g.w, g.w.devices[o.device], fk), LAMBDA m :
        IF m.value
        THEN Try(set_mute(m.w, m.w.devices[o.device], FALSE, fk), LAMBDA s :
                 RoleDone(SetFlag(s.w, flow, FALSE)))
        ELSE RoleDone(SetFlag(m.w, flow, FALSE)))))

\* one role's part of on_unlock without the test of the role's flag
UnlockRole_unguarded(w, flow, fk) == UnlockFlagged(w, flow, fk)

\* one role's part of on_unlock: when the role's flag is set, unmute the
\* role's default device if it is muted, then clear the flag
UnlockRole(w, flow, fk) ==
    IF Flag(w, flow) THEN UnlockFlagged(w, flow, fk) ELSE RoleDone(w)

\* DrawIcon of the entry's icon into the memory DC
DrawIcon(w, device, fk) ==
    LET w1 == Log(w, <<"DrawIcon", device>>)
    IN  IF fk = "draw" THEN Fault(w1) ELSE Done(w1)

\* one slot of on_paint whose overlay is read from the render device
PaintRole_render_mute(w, flow, fk) ==
    Try(get_default_device(w, flow, fk), LAMBDA o :
    Try(get_device(o.w, o.device, fk), LAMBDA g :
    Try(DrawIcon(g.w, o.device, fk), LAMBDA d :
        LET m == is_mute(d.w, d.w.devices[IF defaultDev["render"] \in DOMAIN d.w.devices
                                          THEN defaultDev["render"] ELSE o.device], fk)
        IN  [ok |-> m.ok, w |-> m.w, drawn |-> TRUE, overlay |-> m.ok /\ m.value])))

\* one slot of on_paint: the icon of the role's default device and, when the
\* device is muted, the overlay
PaintRole(w, flow, fk) ==
    Try(get_default_device(w, flow, fk), LAMBDA o :
    Try(get_device(o.w, o.device, fk), LAMBDA g :
    Try(DrawIcon(g.w, o.device, fk), LAMBDA d :
        LET m == is_mute(d.w, d.w.devices[o.device], fk)
        IN  [ok |-> m.ok, w |-> m.w, drawn |-> TRUE, overlay |-> m.ok /\ m.value])))

\* the result of a handler made of a render part a and a capture part b,
\* where an error of the render part returns before the capture part
Sequenced(a, b) ==
    IF ~a.ok
    THEN [ok |-> FALSE, w |-> a.w,
          res |-> [r \in Roles |-> IF r = "render" THEN "err" ELSE "skipped"],
          drawn |-> [r \in Roles |-> r = "render" /\ a.drawn],
          overlay |-> [r \in Roles |-> FALSE]]
    ELSE [ok |-> b.ok, w |-> b.w,
          res |-> [r \in Roles |-> IF r = "render" \/ b.ok THEN "ok" ELSE "err"],
          drawn |-> [r \in Roles |-> IF r = "render" THEN a.drawn ELSE b.drawn],
          overlay |-> [r \in Roles |-> IF r = "render" THEN a.overlay ELSE b.overlay]]

\* the render part, then the capture part on the state the render part left
RenderThenCapture(a, part(_, _, _), f) ==
    Sequenced(a, part(a.w, "capture", KindFor(f, "capture")))

\* WindowHelper::on_lock
on_lock(w, f) ==
    RenderThenCapture(LockRole(w, "render", KindFor(f, "render")), LockRole, f)

\* WindowHelper::on_unlock
on_unlock(w, f) ==
    RenderThenCapture(UnlockRole(w, "render", KindFor(f, "render")), UnlockRole, f)

\* on_paint after the two slots: UpdateLayeredWindow shows what was drawn
Present(p, f) ==
    IF ~p.ok THEN p @@ [updated |-> FALSE]
    ELSE IF f = <<"window", "update">>
    THEN [p EXCEPT !.ok = FALSE, !.w = Fault(p.w).w] @@ [updated |-> FALSE]
    ELSE p @@ [updated |-> TRUE]

\* WindowHelper::on_paint: GetWindowRect, the two slots, UpdateLayeredWindow
on_paint(w, f) ==
    IF f = <<"window", "rect">>
    THEN [ok |-> FALSE, w |-> Fault(w).w, res |-> [r \in Roles |-> "skipped"],
          drawn |-> [r \in Roles |-> FALSE], overlay |-> [r \in Roles |-> FALSE],
          updated |-> FALSE]
    ELSE Present(RenderThenCapture(PaintRole(w, "render", KindFor(f, "render")),
                                   PaintRole, f), f)

\* ------------------------------------------------------------------ actions

NoRoles == [r \in Roles |-> FALSE]

\* the record of a call that is no handler of the two roles. Of a call,
\* name, ok (the handler returned Ok), res (each role's part: "ok", "err", or
\* "skipped" when an earlier error returned first), os (the OS calls issued),
\* and what on_paint drew; of an on_lock, pre and preflag: the mute state of
\* each role's default device and the role's flag when it began; an on_unlock
\* that follows an on_lock with nothing in between keeps that on_lock's pre and
\* preflag
NoCall ==
    [name |-> "none", ok |-> TRUE, res |-> [r \in Roles |-> "none"],
     pre |-> [r \in Roles |-> "na"], preflag |-> NoRoles, os |-> {},
     drawn |-> NoRoles, overlay |-> NoRoles, updated |-> FALSE]

\* the mute state of a role's default device, as the OS has it now
MuteOfDefault(flow) ==
    IF defaultDev[flow] = NoDevice THEN "nodev"
    ELSE IF mute[defaultDev[flow]] THEN "muted" ELSE "unmuted"

\* the state the handler leaves behind the mutex and in the OS
Commit(w) ==
    /\ mute' = w.mute
    /\ mutedBy' = w.mutedBy
    /\ devices' = w.devices
    /\ unlock_mute_output' = w.unlock_mute_output
    /\ unlock_mute_input' = w.unlock_mute_input
    /\ registered' = w.registered

\* the environment's choice of a fault counts when the handler reached that OS call
Reached(f, r) == f = NoFault \/ r.w.fired

\* wrap: run the handler under the mutex; an error is logged and dropped
wrap(name, r, pre, preflag) ==
    /\ Commit(r.w)
    /\ call' = [NoCall EXCEPT !.name = name, !.ok = r.ok, !.res = r.res, !.os = r.w.os,
                              !.pre = pre, !.preflag = preflag]
    /\ UNCHANGED <<defaultDev, iconPath, procVars, lifeVars>>

\* window_proc, WM_WTSSESSION_CHANGE / WTS_SESSION_LOCK
OnLock ==
    \E f \in LockFaults :
        \E r \in {on_lock(World, f)} :
            /\ Reached(f, r)
            /\ wrap("on_lock", r, [x \in Roles |-> MuteOfDefault(x)],
                    [x \in Roles |-> Flag(World, x)])

\* window_proc, WM_WTSSESSION_CHANGE / WTS_SESSION_UNLOCK
OnUnlock ==
    \E f \in LockFaults :
        \E r \in {on_unlock(World, f)} :
            /\ Reached(f, r)
            /\ IF call.name = "on_lock"
               THEN wrap("on_unlock", r, call.pre, call.preflag)
               ELSE wrap("on_unlock", r, NoCall.pre, NoCall.preflag)

\* window_proc, WM_PAINT, with the OS failing as F allows
Paint(F) ==
    \E f \in F :
        \E r \in {on_paint(World, f)} :
            /\ Reached(f, r)
            /\ Commit(r.w)
            /\ call' = [NoCall EXCEPT !.name = "on_paint", !.ok = r.ok, !.res = r.res,
                                      !.os = r.w.os, !.drawn = r.drawn,
                                      !.overlay = r.overlay, !.updated = r.updated]
            /\ UNCHANGED <<defaultDev, iconPath, procVars, lifeVars>>

OnPaint == Paint(PaintFaults)

\* window_proc, WM_LBUTTONDOWN: connect_airpods touches neither the cache nor
\* the flags; its OS calls succeed or fail
OnClick ==
    \E ok \in BOOLEAN :
        /\ call' = [NoCall EXCEPT !.name = "connect_airpods", !.ok = ok]
        /\ UNCHANGED <<mute, mutedBy, defaultDev, iconPath, devices, unlock_mute_output,
                       unlock_mute_input, registered, procVars, lifeVars>>

\* the user, or another program, mutes or unmutes an endpoint
UserSetMute ==
    \E d \in Devices, v \in BOOLEAN :
        /\ mute[d] # v
        /\ mute' = [mute EXCEPT ![d] = v]
        /\ mutedBy' = [mutedBy EXCEPT ![d] = IF v THEN "user" ELSE "none"]
        /\ call' = [NoCall EXCEPT !.name = "user_mute"]
        /\ UNCHANGED <<defaultDev, iconPath, devices, unlock_mute_output,
                       unlock_mute_input, registered, procVars, lifeVars>>

\* the OS gives a role another default endpoint, or none
SetDefault ==
    \E flow \in Roles : \E d \in DevicesOf(flow) \cup {NoDevice} :
        /\ defaultDev[flow] # d
        /\ defaultDev' = [defaultDev EXCEPT ![flow] = d]
        /\ call' = [NoCall EXCEPT !.name = "default_changed"]
        /\ UNCHANGED <<mute, mutedBy, iconPath, devices, unlock_mute_output,
                       unlock_mute_input, registered, procVars, lifeVars>>

\* no notification delivered, no handler run, no run ended yet
NoCb == [kind |-> "none", redraw |-> FALSE]
NoHandler == [name |-> "none", end |-> "none"]

\* run() in its message loop: the window exists, WINDOW_HELPER is set, the
\* periodic thread sleeps, no notification is being delivered
Dispatching ==
    /\ ui = "loop"
    /\ classRegistered = TRUE
    /\ hwnd = "alive"
    /\ helper = "some"
    /\ mutex = "free"
    /\ handlers = <<>>
    /\ subscribed = TRUE
    /\ dirty = FALSE
    /\ tick = "sleep"
    /\ cb = "idle"
    /\ lastCb = NoCb
    /\ lastHandler = NoHandler
    /\ lastRun = "none"

\* AudioManager::new, with the OS in any state: nothing is tracked, so no
\* notification is owed and nothing has been released
InitManager ==
    /\ devices = [k \in {} |-> AudioDevice(NoDevice, [path |-> <<>>, index |-> 0])]
    /\ unlock_mute_output = FALSE
    /\ unlock_mute_input = FALSE
    /\ registered = [d \in Devices |-> 0]
    /\ call = NoCall
    /\ pending = {}
    /\ released = <<>>

Init ==
    /\ mute \in [Devices -> BOOLEAN]
    /\ mutedBy = [d \in Devices |-> IF mute[d] THEN "user" ELSE "none"]
    /\ defaultDev \in {f \in [Roles -> Devices \cup {NoDevice}] :
                          \A r \in Roles : f[r] \in DevicesOf(r) \cup {NoDevice}}
    /\ iconPath = IconEnv
    /\ InitManager
    /\ Dispatching

Next == OnLock \/ OnUnlock \/ OnPaint \/ OnClick \/ UserSetMute \/ SetDefault

Spec == Init /\ [][Next]_vars

\* the cache in front of any icon descriptor: endpoint A has any descriptor
\* up to MaxLen, nothing is muted, no OS call fails, and the window is
\* painted while the defaults change
InitIcon ==
    /\ mute = [d \in Devices |-> FALSE]
    /\ mutedBy = [d \in Devices |-> "none"]
    /\ defaultDev = [r \in Roles |-> IF r = "render" THEN "A" ELSE "B"]
    /\ iconPath \in {[IconEnv EXCEPT !["A"] = s] : s \in IconStrings}
    /\ InitManager
    /\ Dispatching

PaintNoFault == Paint({NoFault})

NextIcon == PaintNoFault \/ SetDefault

SpecIcon == InitIcon /\ [][NextIcon]_vars

\* ------------------------------------------------------------------ process

\* The process around the handlers: main restarts run until it returns Ok;
\* run sets up the window and the AudioManager, spawns the periodic thread and
\* dispatches messages; OS threads deliver audio notifications. What a
\* handler does to the audio state is the part above; here a handler is a
\* begin and an end with the outcomes that part shows it to have.

\* the calls of wrap in window_proc
HandlerNames == {"on_paint", "on_lock", "on_unlock", "connect_airpods"}

\* the process has neither returned from main nor been aborted by a panic
Running == ui \notin {"exited", "aborted"}

\* a thread is inside SendMessageA(hwnd, WM_KILLFOCUS) to the live window:
\* the call returns when the window's thread has handled the message
SentPending == hwnd = "alive" /\ (tick = "send" \/ cb = "send")

\* Mutex::lock that does not take the mutex
MutexLock_skipped(m) == m

\* Mutex::lock in wrap: the guard, held until wrap's closure returns
MutexLock(m) == "held"

\* run returns Err at the named step: main logs the error and sleeps
RunErr(step) ==
    /\ ui' = "backoff"
    /\ lastRun' = step

\* main: the next iteration of its loop calls run, which begins with
\* CoInitialize(None).ok()? and initialize_gdip
Main ==
    /\ ui = "main"
    /\ \E ok \in BOOLEAN :
           IF ok THEN ui' = "create_window" /\ UNCHANGED lastRun
           ELSE RunErr("CoInitialize")
    /\ UNCHANGED <<classRegistered, hwnd, helper, mutex, handlers, subscribed, dirty,
                   tick, cb, lastCb, lastHandler, audioVars, lifeVars>>

\* main: the sleep of 500 ms after a failed run is over
Backoff ==
    /\ ui = "backoff"
    /\ ui' = "main"
    /\ UNCHANGED <<classRegistered, hwnd, helper, mutex, handlers, subscribed, dirty,
                   tick, cb, lastCb, lastHandler, lastRun, audioVars, lifeVars>>

\* create_window succeeds: RegisterClassA registers the class, which it does
\* only for a class that is not registered yet; the HWND CreateWindowExA
\* returns is not looked at, so it may be null
CreateWindowOk ==
    /\ ui = "create_window"
    /\ ~classRegistered
    /\ classRegistered' = TRUE
    /\ \E created \in BOOLEAN : hwnd' = IF created THEN "alive" ELSE "none"
    /\ ui' = "session"
    /\ UNCHANGED <<helper, mutex, handlers, subscribed, dirty, tick, cb, lastCb,
                   lastHandler, lastRun, audioVars, lifeVars>>

\* create_window fails: RegisterClassA returns 0 for a class that is already
\* registered, or an OS call before it returns an error
CreateWindowFails ==
    /\ ui = "create_window"
    /\ RunErr(IF classRegistered THEN "RegisterClassA" ELSE "create_window")
    /\ UNCHANGED <<classRegistered, hwnd, helper, mutex, handlers, subscribed, dirty,
                   tick, cb, lastCb, lastHandler, audioVars, lifeVars>>

\* run: WTSRegisterSessionNotification(hwnd, NOTIFY_FOR_ALL_SESSIONS)?
RegisterSession ==
    /\ ui = "session"
    /\ \E ok \in BOOLEAN :
           IF ok THEN ui' = "audio" /\ UNCHANGED lastRun
           ELSE RunErr("WTSRegisterSessionNotification")
    /\ UNCHANGED <<classRegistered, hwnd, helper, mutex, handlers, subscribed, dirty,
                   tick, cb, lastCb, lastHandler, audioVars, lifeVars>>

\* run: AudioManager::new(redraw_handle)?, WINDOW_HELPER.set, the spawn of
\* the periodic thread, whose loop begins with redraw
NewAudioManager ==
    /\ ui = "audio"
    /\ \E ok \in BOOLEAN :
           IF ok
           THEN /\ subscribed' = TRUE
                /\ helper' = "some"
                /\ tick' = "send"
                /\ ui' = "loop"
                /\ UNCHANGED lastRun
           ELSE /\ RunErr("AudioManager::new")
                /\ UNCHANGED <<subscribed, helper, tick>>
    /\ UNCHANGED <<classRegistered, hwnd, mutex, handlers, dirty, cb, lastCb,
                   lastHandler, audioVars, lifeVars>>

\* GetMessageA hands a sent WM_KILLFOCUS to window_proc, which runs
\* SetWindowPos(..).unwrap(): the sender's SendMessageA returns, or the unwrap
\* panics inside the extern "system" function and the process is aborted
DispatchSent(who) ==
    /\ ui = "loop"
    /\ hwnd = "alive"
    /\ \E ok \in BOOLEAN :
           /\ IF who = "tick" THEN tick = "send" ELSE cb = "send"
           /\ IF ok
              THEN /\ tick' = IF who = "tick" THEN "invalidate" ELSE tick
                   /\ cb' = IF who = "cb" THEN "invalidate" ELSE cb
                   /\ lastHandler' = [name |-> "WM_KILLFOCUS", end |-> "ok"]
                   /\ UNCHANGED ui
              ELSE /\ ui' = "aborted"
                   /\ lastHandler' = [name |-> "WM_KILLFOCUS", end |-> "panic"]
                   /\ UNCHANGED <<tick, cb>>
    /\ UNCHANGED <<classRegistered, hwnd, helper, mutex, handlers, subscribed, dirty,
                   lastCb, lastRun, audioVars, lifeVars>>

DispatchTick == DispatchSent("tick")

DispatchCb == DispatchSent("cb")

\* window_proc gets WM_PAINT, a session change or a click and calls wrap,
\* which locks the mutex and calls the handler. GetMessageA hands over sent
\* messages before it returns a posted one, and WM_PAINT only for a window
\* with an invalid region
BeginHandler(h) ==
    /\ ui = "loop"
    /\ hwnd = "alive"
    /\ ~SentPending
    /\ helper = "some"
    /\ mutex = "free"
    /\ h = "on_paint" => dirty
    /\ mutex' = MutexLock(mutex)
    /\ handlers' = Append(handlers, h)
    /\ ui' = "handler"
    /\ UNCHANGED <<classRegistered, hwnd, helper, subscribed, dirty, tick, cb, lastCb,
                   lastHandler, lastRun, audioVars, lifeVars>>

OnWmPaint == BeginHandler("on_paint")

OnWindowEvent == \E h \in HandlerNames \ {"on_paint"} : BeginHandler(h)

\* the handler returns: Ok, or Err that wrap logs, and the guard is dropped;
\* DefWindowProcA then validates the window after WM_PAINT. The assert_eq! of
\* connect_airpods can panic, which aborts the process in window_proc
EndHandler ==
    /\ ui = "handler"
    /\ \E end \in {"ok", "err", "panic"} :
           /\ end = "panic" => handlers[Len(handlers)] = "connect_airpods"
           /\ lastHandler' = [name |-> handlers[Len(handlers)], end |-> end]
           /\ IF end = "panic"
              THEN ui' = "aborted" /\ UNCHANGED <<mutex, handlers, dirty>>
              ELSE /\ mutex' = "free"
                   /\ handlers' = SubSeq(handlers, 1, Len(handlers) - 1)
                   /\ dirty' = (dirty /\ handlers[Len(handlers)] # "on_paint")
                   /\ ui' = "loop"
    /\ UNCHANGED <<classRegistered, hwnd, helper, subscribed, tick, cb, lastCb,
                   lastRun, audioVars, lifeVars>>

\* WM_CLOSE: DefWindowProcA destroys the window, WM_DESTROY posts WM_QUIT and
\* GetMessageA returns 0
CloseWindow ==
    /\ ui = "loop"
    /\ hwnd = "alive"
    /\ ~SentPending
    /\ hwnd' = "destroyed"
    /\ dirty' = FALSE
    /\ ui' = "teardown"
    /\ UNCHANGED <<classRegistered, helper, mutex, handlers, subscribed, tick, cb,
                   lastCb, lastHandler, lastRun, audioVars, lifeVars>>

\* WM_QUIT posted to the thread from outside: GetMessageA returns 0 and the
\* window is still there
QuitPosted ==
    /\ ui = "loop"
    /\ ~SentPending
    /\ ui' = "teardown"
    /\ UNCHANGED <<classRegistered, hwnd, helper, mutex, handlers, subscribed, dirty,
                   tick, cb, lastCb, lastHandler, lastRun, audioVars, lifeVars>>

\* run after the loop: WINDOW_HELPER.take(), state.audio.destroy()?, which
\* consumes the AudioManager and its map; the HashMap yields the entries in
\* any order, and a destroy that fails has made the release calls before the
\* failing one and none after it
Teardown ==
    /\ ui = "teardown"
    /\ helper' = "none"
    /\ \E order \in Orders(DOMAIN devices), f \in DestroyFaults :
           \E r \in {destroy(order, f)} :
               /\ f = NoFault \/ r.fired
               /\ released' = released \o r.calls
               /\ registered' =
                      [d \in Devices |->
                          IF Called(r.calls, "UnregisterControlChangeNotify", d)
                          THEN registered[d] - 1 ELSE registered[d]]
               /\ devices' = [k \in {} |-> devices[k]]
               /\ subscribed' = (subscribed /\ ~r.endpoint)
               /\ IF r.ok THEN ui' = "destroy_window" /\ UNCHANGED lastRun
                  ELSE RunErr("destroy")
    /\ UNCHANGED <<classRegistered, hwnd, mutex, handlers, dirty, tick, cb, lastCb,
                   lastHandler, mute, mutedBy, defaultDev, iconPath, unlock_mute_output,
                   unlock_mute_input, call, pending>>

\* run: DestroyWindow(hwnd)?, which fails for a window that is already
\* destroyed; then Ok(()) and main breaks out of its loop
DestroyWindowStep ==
    /\ ui = "destroy_window"
    /\ \E ok \in BOOLEAN :
           IF ok /\ hwnd = "alive"
           THEN hwnd' = "destroyed" /\ ui' = "exited" /\ lastRun' = "ok"
           ELSE RunErr("DestroyWindow") /\ UNCHANGED hwnd
    /\ UNCHANGED <<classRegistered, helper, mutex, handlers, subscribed, dirty, tick,
                   cb, lastCb, lastHandler, audioVars, lifeVars>>

\* RedrawHandle::redraw, first half, with no live window: SendMessageA fails
\* at once. With a live window it returns through DispatchSent
SendFails(pc) == pc = "send" /\ hwnd # "alive"

\* RedrawHandle::redraw, second half: InvalidateRect(Some(hwnd), None, true)
Invalidated == dirty \/ hwnd = "alive"

\* the periodic thread: SendMessageA returns without a window
TickSendFails ==
    /\ Running
    /\ SendFails(tick)
    /\ tick' = "invalidate"
    /\ UNCHANGED <<ui, classRegistered, hwnd, helper, mutex, handlers, subscribed, dirty,
                   cb, lastCb, lastHandler, lastRun, audioVars, lifeVars>>

\* the periodic thread: InvalidateRect, then sleep(30 s)
TickInvalidate ==
    /\ Running
    /\ tick = "invalidate"
    /\ dirty' = Invalidated
    /\ tick' = "sleep"
    /\ UNCHANGED <<ui, classRegistered, hwnd, helper, mutex, handlers, subscribed, cb,
                   lastCb, lastHandler, lastRun, audioVars, lifeVars>>

\* the periodic thread: the sleep is over, the loop calls redraw again
TickSleep ==
    /\ Running
    /\ tick = "sleep"
    /\ tick' = "send"
    /\ UNCHANGED <<ui, classRegistered, hwnd, helper, mutex, handlers, subscribed, dirty,
                   cb, lastCb, lastHandler, lastRun, audioVars, lifeVars>>

\* a notification method that returns Ok(()) and does nothing else
Ignored(kind) ==
    /\ Running
    /\ subscribed
    /\ cb = "idle"
    /\ lastCb' = [kind |-> kind, redraw |-> FALSE]
    /\ UNCHANGED <<ui, classRegistered, hwnd, helper, mutex, handlers, subscribed, dirty,
                   tick, cb, lastHandler, lastRun, audioVars, lifeVars>>

\* a notification method that calls self.redraw_handle.redraw(). The OS
\* calls OnNotify for a mute change it has queued, or for another change of
\* an endpoint's volume
Redrawn(kind) ==
    /\ Running
    /\ subscribed
    /\ cb = "idle"
    /\ lastCb' = [kind |-> kind, redraw |-> TRUE]
    /\ cb' = "send"
    /\ IF kind = "OnNotify"
       THEN \E d \in pending \cup {NoDevice} : pending' = pending \ {d}
       ELSE UNCHANGED pending
    /\ UNCHANGED <<ui, classRegistered, hwnd, helper, mutex, handlers, subscribed, dirty,
                   tick, lastHandler, lastRun, audioVars, released>>

\* IMMNotificationClient and IAudioEndpointVolumeCallback
OnDeviceStateChanged == Ignored("OnDeviceStateChanged")
OnDeviceAdded == Ignored("OnDeviceAdded")
OnDeviceRemoved == Ignored("OnDeviceRemoved")
OnDefaultDeviceChanged == Redrawn("OnDefaultDeviceChanged")
OnPropertyValueChanged == Ignored("OnPropertyValueChanged")
OnNotify == Redrawn("OnNotify")

\* the notification thread: SendMessageA returns without a window
CbSendFails ==
    /\ Running
    /\ SendFails(cb)
    /\ cb' = "invalidate"
    /\ UNCHANGED <<ui, classRegistered, hwnd, helper, mutex, handlers, subscribed, dirty,
                   tick, lastCb, lastHandler, lastRun, audioVars, lifeVars>>

\* the notification thread: InvalidateRect, and the method returns Ok(())
CbInvalidate ==
    /\ Running
    /\ cb = "invalidate"
    /\ dirty' = Invalidated
    /\ cb' = "idle"
    /\ UNCHANGED <<ui, classRegistered, hwnd, helper, mutex, handlers, subscribed, tick,
                   lastCb, lastHandler, lastRun, audioVars, lifeVars>>

\* the process when main is entered; the audio state is left out of this part
InitProc ==
    /\ mute = [d \in Devices |-> FALSE]
    /\ mutedBy = [d \in Devices |-> "none"]
    /\ defaultDev = [r \in Roles |-> IF r = "render" THEN "A" ELSE "B"]
    /\ iconPath = IconEnv
    /\ InitManager
    /\ ui = "main"
    /\ classRegistered = FALSE
    /\ hwnd = "none"
    /\ helper = "none"
    /\ mutex = "free"
    /\ handlers = <<>>
    /\ subscribed = FALSE
    /\ dirty = FALSE
    /\ tick = "none"
    /\ cb = "idle"
    /\ lastCb = NoCb
    /\ lastHandler = NoHandler
    /\ lastRun = "none"

\* the steps the main thread takes by itself once it can
MainThread ==
    \/ Main \/ Backoff \/ CreateWindowOk \/ CreateWindowFails \/ RegisterSession
    \/ NewAudioManager \/ DispatchTick \/ DispatchCb \/ OnWmPaint \/ EndHandler
    \/ Teardown \/ DestroyWindowStep

TickThread == TickSendFails \/ TickInvalidate \/ TickSleep

CbThread == CbSendFails \/ CbInvalidate

NextProc ==
    \/ Main \/ Backoff \/ CreateWindowOk \/ CreateWindowFails \/ RegisterSession
    \/ NewAudioManager \/ DispatchTick \/ DispatchCb \/ OnWmPaint \/ OnWindowEvent
    \/ EndHandler
    \/ CloseWindow \/ QuitPosted \/ Teardown \/ DestroyWindowStep
    \/ TickSendFails \/ TickInvalidate \/ TickSleep
    \/ OnDeviceStateChanged \/ OnDeviceAdded \/ OnDeviceRemoved
    \/ OnDefaultDeviceChanged \/ OnPropertyValueChanged \/ OnNotify
    \/ CbSendFails \/ CbInvalidate

\* every thread that can take a step is scheduled, and the message loop
\* serves every sender that waits in SendMessageA; events from outside (a
\* session change, a click, a close, a notification) need not come
SpecProc ==
    /\ InitProc
    /\ [][NextProc]_vars
    /\ WF_vars(MainThread)
    /\ WF_vars(DispatchTick)
    /\ WF_vars(DispatchCb)
    /\ WF_vars(TickThread)
    /\ WF_vars(CbThread)

\* ------------------------------------------------------------------ one run

\* One run in its message loop, with the audio state and the threads
\* together: the handlers change mute states, the OS owes an OnNotify to
\* every subscription of an endpoint whose mute state changed and delivers it
\* on its own thread, and the periodic thread ticks. A handler is one step
\* here, taken by the message loop.

\* the endpoints the OS owes an OnNotify after a step that leaves the mute
\* states m and the subscriptions reg: those with a RegisterControlChangeNotify
\* in force whose mute state the step changed
Owed(m, reg) == {d \in Devices : m[d] # mute[d] /\ reg[d] > 0}

\* in the run every OS call of on_lock and on_unlock succeeds but SetMute,
\* which can fail for either role
SetMuteFaults == {NoFault} \cup (Roles \X {"set_mute"})

\* window_proc, WM_WTSSESSION_CHANGE: wrap runs on_lock or on_unlock, and the
\* OS queues the notifications of the SetMute calls that succeeded
SessionChange(name) ==
    /\ ui = "loop"
    /\ \E f \in SetMuteFaults :
           \E r \in {IF name = "on_lock" THEN on_lock(World, f) ELSE on_unlock(World, f)} :
               /\ Reached(f, r)
               /\ Commit(r.w)
               /\ call' = [NoCall EXCEPT !.name = name, !.ok = r.ok, !.res = r.res,
                                         !.os = r.w.os]
               /\ pending' = pending \cup Owed(r.w.mute, r.w.registered)
    /\ UNCHANGED <<defaultDev, iconPath, procVars, released>>

SessionLock == SessionChange("on_lock")

SessionUnlock == SessionChange("on_unlock")

\* the user, or another program, changes the mute state of an endpoint, and
\* the OS queues the notification when the endpoint is subscribed to
UserMuteNotified ==
    \E d \in Devices :
        /\ mute' = [mute EXCEPT ![d] = ~mute[d]]
        /\ mutedBy' = [mutedBy EXCEPT ![d] = IF mute[d] THEN "none" ELSE "user"]
        /\ call' = [NoCall EXCEPT !.name = "user_mute"]
        /\ pending' = pending \cup Owed(mute', registered)
        /\ UNCHANGED <<defaultDev, iconPath, devices, unlock_mute_output,
                       unlock_mute_input, registered, procVars, released>>

\* window_proc, WM_PAINT, while the message loop runs
LoopPaint == ui = "loop" /\ Paint({NoFault})

\* a change of a default endpoint while the message loop runs
LoopSetDefault == ui = "loop" /\ SetDefault

\* the run in its message loop, nothing tracked yet, nothing muted
InitRun ==
    /\ mute = [d \in Devices |-> FALSE]
    /\ mutedBy = [d \in Devices |-> "none"]
    /\ defaultDev = [r \in Roles |-> IF r = "render" THEN "A" ELSE "B"]
    /\ iconPath = IconEnv
    /\ InitManager
    /\ Dispatching

\* the OS delivers the OnNotify it owes for endpoint d
NotifyOf(d) == OnNotify /\ d \in pending /\ d \notin pending'

NextRun ==
    \/ SessionLock \/ SessionUnlock \/ UserMuteNotified \/ LoopPaint
    \/ OnNotify \/ DispatchCb \/ CbInvalidate
    \/ TickSleep \/ DispatchTick \/ TickInvalidate

\* the OS delivers every notification it owes: its notification thread is
\* free again and again, and no owed OnNotify is passed over for ever; the
\* message loop serves the senders, and the threads are scheduled
SpecRun ==
    /\ InitRun
    /\ [][NextRun]_vars
    /\ \A d \in Devices : SF_vars(NotifyOf(d))
    /\ WF_vars(DispatchCb)
    /\ WF_vars(DispatchTick)
    /\ WF_vars(CbInvalidate)
    /\ WF_vars(TickInvalidate)

\* The end of a run: the window is painted while the defaults change, so
\* that the cache fills, then the message loop ends and run tears down.
NextShutdown ==
    \/ LoopPaint \/ LoopSetDefault
    \/ CloseWindow \/ QuitPosted \/ Teardown \/ DestroyWindowStep

SpecShutdown == InitRun /\ [][NextShutdown]_vars

\* ------------------------------------------------------------------ claims

\* the force-muted flag of a role, as the AudioManager holds it now
FlagVar(flow) == IF flow = "render" THEN unlock_mute_output ELSE unlock_mute_input

LockPolicyCalls == {"on_lock", "on_unlock"}

\* C1: for each role, a default device that is unmuted just before on_lock is
\* muted just after it, and unmuted again after the on_unlock that follows
\* with no other change in between. Stated in the claim's favour: a role
\* whose own OS calls failed in the call is not held against it.
C1_LockMutesUnlockRestores ==
    \A r \in Roles :
        (call.pre[r] = "unmuted" /\ call.res[r] # "err") =>
            /\ call.name = "on_lock" => mute[defaultDev[r]]
            /\ call.name = "on_unlock" => ~mute[defaultDev[r]]

\* C2 as written: for each role, a default device that is already muted when
\* on_lock runs stays muted, the role's flag is false after on_lock, and the
\* on_unlock that follows does not unmute the device
C2_Original ==
    \A r \in Roles :
        (call.name \in LockPolicyCalls /\ call.pre[r] = "muted") =>
            /\ mute[defaultDev[r]]
            /\ call.name = "on_lock" => ~FlagVar(r)

\* C2 amended: for each role, a default device that is already muted when
\* on_lock runs, the role's flag being false then, stays muted, the flag is
\* false after on_lock, and the on_unlock that follows with nothing in
\* between does not unmute the device and leaves the flag false
C2_AlreadyMuted ==
    \A r \in Roles :
        (call.name \in LockPolicyCalls /\ call.pre[r] = "muted" /\ ~call.preflag[r]) =>
            /\ mute[defaultDev[r]]
            /\ ~FlagVar(r)
            /\ <<"SetMute", defaultDev[r]>> \notin call.os

\* an on_unlock right after an on_lock that found the render default muted
\* and the capture default unmuted: it unmuted the capture device only
C2_Witness ==
    /\ call.name = "on_unlock"
    /\ call.ok
    /\ call.pre = [r \in Roles |-> IF r = "render" THEN "muted" ELSE "unmuted"]
    /\ call.preflag = [r \in Roles |-> FALSE]
    /\ mute[defaultDev["render"]]
    /\ <<"SetMute", defaultDev["capture"]>> \in call.os
    /\ ~mute[defaultDev["capture"]]

\* C3: over every interleaving of lock, unlock, user mute changes and default
\* device changes, on_unlock unmutes only a device whose current mute was set
\* by on_lock, never one the user muted
C3_UnlockNeverUnmutesUser ==
    [][call'.name = "on_unlock" =>
          \A d \in Devices : (mute[d] /\ ~mute'[d]) => mutedBy[d] = "policy"]_vars

\* the scenario of C4 at its on_lock: both flags false, the render default
\* unmuted, the capture default muted
C4_Scenario ==
    /\ call.name \in LockPolicyCalls
    /\ call.ok
    /\ call.pre = [r \in Roles |-> IF r = "render" THEN "unmuted" ELSE "muted"]
    /\ call.preflag = [r \in Roles |-> FALSE]

\* C4: in that scenario, after an on_lock that returned Ok the render default
\* is muted with the output flag true and the capture default is still muted
\* with the input flag false; after the on_unlock that follows and returns Ok
\* the render default is unmuted, the capture default still muted and both
\* flags false
C4_TwoRolesOneLockUnlock ==
    C4_Scenario =>
        /\ mute[defaultDev["capture"]]
        /\ <<"SetMute", defaultDev["capture"]>> \notin call.os
        /\ ~unlock_mute_input
        /\ call.name = "on_lock" => (mute[defaultDev["render"]] /\ unlock_mute_output)
        /\ call.name = "on_unlock" => (~mute[defaultDev["render"]] /\ ~unlock_mute_output)

\* the end of the scenario: the on_unlock unmuted the render default that the
\* on_lock had muted
C4_Witness ==
    /\ C4_Scenario
    /\ call.name = "on_unlock"
    /\ <<"SetMute", defaultDev["render"]>> \in call.os
    /\ ~mute[defaultDev["render"]]
    /\ mute[defaultDev["capture"]]

BothFlagsFalse == ~unlock_mute_output /\ ~unlock_mute_input

\* C5: both flags are false at startup and only on_lock sets one, and an
\* on_unlock that runs with both flags false changes no mute state, no flag
\* and no cache entry, and issues no OS call (it resolves and tracks nothing)
C5_UnlockWithoutLock ==
    /\ BothFlagsFalse
    /\ [][/\ (\E r \in Roles : ~FlagVar(r) /\ FlagVar(r)') => call'.name = "on_lock"
          /\ (BothFlagsFalse /\ call'.name = "on_unlock") =>
                 /\ UNCHANGED <<mute, mutedBy, devices, registered,
                                unlock_mute_output, unlock_mute_input>>
                 /\ call'.os = {}
                 /\ call'.ok]_vars

\* an on_unlock with nothing tracked yet and no flag set, while the defaults
\* of both roles are muted
C5_Witness ==
    /\ call.name = "on_unlock"
    /\ call.os = {}
    /\ BothFlagsFalse
    /\ DOMAIN devices = {}
    /\ \A r \in Roles : MuteOfDefault(r) = "muted"

\* C6: an on_lock that follows an on_lock with nothing in between, the first
\* having met no OS error other than a role without a default device, leaves
\* every device's mute state and both flags as the first left them and issues
\* no SetMute
C6_LockTwice ==
    [][(/\ call.name = "on_lock"
        /\ call'.name = "on_lock"
        /\ \A r \in Roles : call.res[r] = "err" => defaultDev[r] = NoDevice) =>
           /\ UNCHANGED <<mute, mutedBy, unlock_mute_output, unlock_mute_input>>
           /\ \A d \in Devices : <<"SetMute", d>> \notin call'.os]_vars

\* an on_lock that returned Ok and found both defaults muted by the policy
\* and both flags already true
C6_Witness ==
    /\ call.name = "on_lock"
    /\ call.ok
    /\ call.pre = [r \in Roles |-> "muted"]
    /\ call.preflag = [r \in Roles |-> TRUE]
    /\ \A r \in Roles : FlagVar(r) /\ mute[defaultDev[r]] /\ mutedBy[defaultDev[r]] = "policy"
    /\ \A d \in Devices : <<"SetMute", d>> \notin call.os

\* the OS calls of first-time tracking
TrackingCalls == {"GetValue", "load_icon", "Activate", "RegisterControlChangeNotify"}

IndexField(s) ==
    LET rest == SubSeq(s, FirstComma(s) + 1, Len(s))
    IN  IF FirstComma(rest) = 0 THEN rest ELSE SubSeq(rest, 1, FirstComma(rest) - 1)

\* a decimal number of at most MaxLen characters: an optional sign and digits
DecimalText(t) ==
    \E k \in 1..Len(t) :
        /\ \A i \in k..Len(t) : t[i] \in Digits
        /\ k = 1 \/ (k = 2 /\ t[1] \in {"+", "-"})

NoComma(s) == FirstComma(s) = 0
BadIndex(s) == ~NoComma(s) /\ ~DecimalText(IndexField(s))

\* the endpoints a call tried to decode the icon descriptor of
IconLoaded(d) == <<"load_icon", d>> \in call.os

\* what holds of an endpoint whose descriptor load_icon rejects
Rejected(d) ==
    /\ d \notin DOMAIN devices
    /\ registered[d] = 0
    /\ IconLoaded(d) => (~call.ok /\ <<"Activate", d>> \notin call.os)

\* C8 as written: a descriptor without a comma, or one whose index is not a
\* number, makes load_icon fail, and the cache holds no entry for the device
C8_Original ==
    \A d \in Devices : (NoComma(iconPath[d]) \/ BadIndex(iconPath[d])) => Rejected(d)

\* C8 amended: a descriptor that has a comma and whose text after the first
\* comma is not a decimal number makes load_icon fail; get_device returns the
\* error, the handler fails before Activate, and the cache holds no entry for
\* the device
C8_BadIndexRejected ==
    \A d \in Devices : BadIndex(iconPath[d]) => Rejected(d)

\* a paint that failed on the descriptor of the render default, which the
\* cache does not hold afterwards
C8_Witness ==
    /\ call.name = "on_paint"
    /\ ~call.ok
    /\ \E d \in Devices :
           /\ BadIndex(iconPath[d])
           /\ defaultDev["render"] = d
           /\ IconLoaded(d)
           /\ d \notin DOMAIN devices

\* C9: an on_paint that returned Ok resolved the default device of each role
\* and read its mute state from the OS in that call, drew the role's icon,
\* and drew the role's overlay if and only if that device is muted
C9_PaintShowsLiveMute ==
    (call.name = "on_paint" /\ call.ok) =>
        /\ call.updated
        /\ \A r \in Roles :
               /\ defaultDev[r] # NoDevice
               /\ <<"GetDefaultAudioEndpoint", r>> \in call.os
               /\ <<"GetMute", defaultDev[r]>> \in call.os
               /\ call.drawn[r]
               /\ call.overlay[r] <=> mute[defaultDev[r]]

\* a paint after the render default changed from A, which is cached and not
\* muted, to A2, which is muted: the overlay is that of A2, and the capture
\* default is not muted and has no overlay
C9_Witness ==
    /\ call.name = "on_paint"
    /\ call.ok
    /\ defaultDev["render"] = "A2"
    /\ {"A", "A2"} \subseteq DOMAIN devices
    /\ <<"load_icon", "A2">> \notin call.os
    /\ mute["A2"] /\ ~mute["A"] /\ ~mute[defaultDev["capture"]]
    /\ call.overlay = [r \in Roles |-> r = "render"]

\* C10: in an on_paint where one role's slot could not be drawn (the role has
\* no default device, or resolving or tracking it failed), the other role,
\* which has a default device and met no error of its own, has its icon
\* drawn and its overlay drawn if and only if its device is muted, and the
\* window is updated
C10_PaintToleratesMissingSlot ==
    call.name = "on_paint" =>
        \A r \in Roles : \A o \in Roles \ {r} :
            (/\ call.res[r] = "err"
             /\ ~call.drawn[r]
             /\ defaultDev[o] # NoDevice
             /\ call.res[o] # "err") =>
                /\ call.drawn[o]
                /\ call.overlay[o] <=> mute[defaultDev[o]]
                /\ call.updated

\* C14: after every on_unlock both flags are false, whatever happened inside
C14_UnlockClearsFlags ==
    call.name = "on_unlock" => BothFlagsFalse

\* C15: an on_lock whose render part failed still attempts the capture part:
\* it resolves the capture default and, when that device was unmuted, mutes
\* it and sets the input flag
C15_LockRolesIndependent ==
    (call.name = "on_lock" /\ call.res["render"] = "err") =>
        /\ <<"GetDefaultAudioEndpoint", "capture">> \in call.os
        /\ call.pre["capture"] = "unmuted" =>
               (mute[defaultDev["capture"]] /\ unlock_mute_input)

\* get_device was called for d in the call and returned an error: the
\* handler opened d's property store and did not go on to the step that
\* follows get_device in every handler (GetMute in on_lock and on_unlock,
\* DrawIcon in on_paint)
GetDeviceFailed(c, d) ==
    /\ <<"OpenPropertyStore", d>> \in c.os
    /\ <<"GetMute", d>> \notin c.os
    /\ <<"DrawIcon", d>> \notin c.os

\* C16: a get_device that fails for an identity not in the cache returns the
\* error to the handler, which fails; the identity has no entry afterwards,
\* every entry the cache held is as it was, and no RegisterControlChangeNotify
\* of the identity has succeeded
C16_GetDeviceAtomic ==
    [][\A d \in Devices :
           (d \notin DOMAIN devices /\ GetDeviceFailed(call', d)) =>
               /\ ~call'.ok
               /\ d \notin DOMAIN devices'
               /\ registered'[d] = 0
               /\ \A k \in DOMAIN devices : k \in DOMAIN devices' /\ devices'[k] = devices[k]]_vars

\* a handler failed at RegisterControlChangeNotify, the last fallible step of
\* first-time tracking: the device was activated and has no entry
C16_Witness ==
    /\ ~call.ok
    /\ \E d \in Devices :
           /\ GetDeviceFailed(call, d)
           /\ <<"RegisterControlChangeNotify", d>> \in call.os
           /\ d \notin DOMAIN devices
           /\ registered[d] = 0

\* C17: both flags are false at startup; a flag becomes true only in an
\* on_lock that found the role's default device unmuted and whose SetMute on
\* it succeeded; and after an on_unlock has run no flag is true
C17_FlagOnlyBetweenLockAndUnlock ==
    /\ BothFlagsFalse
    /\ [][/\ \A r \in Roles :
                 (~FlagVar(r) /\ FlagVar(r)') =>
                     /\ call'.name = "on_lock"
                     /\ MuteOfDefault(r) = "unmuted"
                     /\ <<"SetMute", defaultDev[r]>> \in call'.os
                     /\ mute'[defaultDev[r]]
          /\ call'.name = "on_unlock" => \A r \in Roles : ~FlagVar(r)']_vars

\* C11: every audio notification the OS delivers, of whatever kind, has
\* called redraw
C11_NotificationsRedraw ==
    lastCb.kind # "none" => lastCb.redraw

\* C12, the periodic task: once spawned, the periodic thread comes back to
\* its sleep again and again, each time to request the next redraw, for as
\* long as the process runs
C12_PeriodicRedrawForever ==
    [](tick # "none" => <>(tick = "sleep" \/ ~Running))

\* the call met no OS error other than a role having no default device
NoOsError(c) ==
    c.ok \/ \E r \in Roles : c.res[r] = "err" /\ defaultDev[r] = NoDevice

\* C12, the repaint: an on_paint that follows an on_paint with nothing in
\* between, neither meeting an OS error, draws what the first drew and
\* changes no mute state, no cache entry, no subscription and no flag
C12_RepaintIdempotent ==
    [][(/\ call.name = "on_paint" /\ NoOsError(call)
        /\ call'.name = "on_paint" /\ NoOsError(call')) =>
           /\ call'.drawn = call.drawn
           /\ call'.overlay = call.overlay
           /\ call'.updated = call.updated
           /\ UNCHANGED <<mute, mutedBy, devices, registered, unlock_mute_output,
                          unlock_mute_input>>]_vars

\* C13: a run that main starts after a failed run can create its window
\* again, and so go on to the message loop; and main returns only after a
\* run that returned Ok
C13_RestartCanReachLoop ==
    /\ (ui = "create_window" /\ lastRun # "none") => ENABLED CreateWindowOk
    /\ ui = "exited" => lastRun = "ok"

\* C18: no failing step of a handler ends the process, and after a handler
\* that failed the mutex is free for the next one
C18_HandlerFailureContained ==
    /\ ui # "aborted"
    /\ (ui = "loop" /\ lastHandler.end = "err") => mutex = "free"

\* C19: a redraw request of the periodic thread or of a notification
\* callback returns: the thread does not stay in SendMessageA for ever while
\* the process runs
C19_RedrawReturns ==
    /\ [](tick = "send" => <>(tick # "send" \/ ~Running))
    /\ [](cb = "send" => <>(cb # "send" \/ ~Running))

\* C20: at most one handler is being executed at any time, none nested in
\* another, and it holds the mutex from its start to its end: a handler
\* starts only with the mutex free and no handler running, and the mutex is
\* released only when the handler has ended, whatever the periodic thread and
\* the notification thread do meanwhile
C20_HandlersUnderLock ==
    /\ [](handlers # <<>> => (Len(handlers) = 1 /\ mutex = "held"))
    /\ []((Running /\ handlers # <<>>) <=> ui = "handler")
    /\ [][/\ Len(handlers') > Len(handlers) => (mutex = "free" /\ handlers = <<>>)
          /\ (mutex = "held" /\ mutex' = "free") => handlers' = <<>>]_vars

\* on_lock runs under the mutex while the periodic thread and a notification
\* callback are both inside redraw, waiting in SendMessageA
C20_Witness ==
    /\ handlers = <<"on_lock">>
    /\ mutex = "held"
    /\ tick = "send"
    /\ cb = "send"
    /\ hwnd = "alive"

\* C22: the cache holds one entry per device identity, the entry of an
\* identity being the one made for that endpoint, and no step of any kind (a
\* paint, a lock, an unlock, a click, a mute change, a change of a default
\* device) removes an entry or replaces its mute control or its icon
C22_CacheOnlyGrows ==
    /\ [](\A d \in DOMAIN devices :
              /\ d \in Devices
              /\ devices[d].controls = d
              /\ devices[d].icon = load_icon(iconPath[d]).icon)
    /\ [][\A d \in DOMAIN devices :
              d \in DOMAIN devices' /\ devices'[d] = devices[d]]_vars

\* a paint tracked A2, the new render default, while the cache held the
\* entries of A and B, which it still holds
C22_Witness ==
    /\ call.name = "on_paint"
    /\ <<"RegisterControlChangeNotify", "A2">> \in call.os
    /\ DOMAIN devices = Devices
    /\ devices["A"].controls = "A"
    /\ devices["B"].controls = "B"

\* a run is being executed and has its window from create_window
RunHasWindow == ui \in {"session", "audio", "loop", "handler", "teardown", "destroy_window"}

\* main is inside a call of run
RunUnderWay == ui = "create_window" \/ RunHasWindow

\* C24: run spawns the periodic thread only when the process has none, a run
\* in its message loop has one, and whenever the thread requests a redraw
\* while a run is under way, first or restarted, the window it sends to (the
\* one of the run that spawned it, the only one ever created) is the window
\* of that run
C24_OnePeriodicThread ==
    /\ [][(tick # "none" /\ ui = "audio") => ui' # "loop"]_vars
    /\ [](ui \in {"loop", "handler"} => tick # "none")
    /\ []((tick = "send" /\ RunUnderWay) => RunHasWindow)

\* how often destroy has made the release call c of endpoint d
Occ(c, d) == Cardinality({i \in DOMAIN released : released[i] = <<c, d>>})

\* the message loop of the run has ended and destroy has returned
TornDown == ui \in {"destroy_window", "backoff", "exited"}

\* C21: nothing is released while the message loop runs; once destroy has
\* returned, no subscription of any endpoint is left, every endpoint that
\* was tracked has had its subscription unregistered once and its icon
\* destroyed once, the unregistering before the destroying, and nothing
\* else was released
C21_ReleasedOnceAtShutdown ==
    /\ ui \in {"loop", "teardown"} => released = <<>>
    /\ TornDown =>
           \A d \in Devices :
               /\ registered[d] = 0
               /\ Occ("UnregisterControlChangeNotify", d) <= 1
               /\ Occ("DestroyIcon", d) = Occ("UnregisterControlChangeNotify", d)
               /\ \A i, j \in DOMAIN released :
                      (/\ released[i] = <<"UnregisterControlChangeNotify", d>>
                       /\ released[j] = <<"DestroyIcon", d>>) => i < j

\* C23: every endpoint in the cache has exactly one subscription; a step
\* that changes the mute state of an endpoint in the cache, whoever takes it,
\* leaves the OS owing it an OnNotify; an owed OnNotify goes away only by
\* being delivered, and the delivery calls redraw; and while the message
\* loop runs every owed OnNotify is delivered
C23_TrackedMuteChangeRedraws ==
    /\ [](\A d \in DOMAIN devices : registered[d] = 1)
    /\ [][/\ \A d \in DOMAIN devices' : mute'[d] # mute[d] => d \in pending'
          /\ \A d \in pending \ pending' :
                 lastCb' = [kind |-> "OnNotify", redraw |-> TRUE] /\ cb' = "send"]_vars
    /\ \A d \in Devices : [](d \in pending => <>(d \notin pending \/ ui # "loop"))

\* an on_lock muted A and B, which it tracked in the same call; the OnNotify
\* of A has been delivered and its redraw is waiting in SendMessageA, the
\* one of B is still owed
C23_Witness ==
    /\ call.name = "on_lock"
    /\ {<<"RegisterControlChangeNotify", "A">>, <<"SetMute", "A">>, <<"SetMute", "B">>}
           \subseteq call.os
    /\ mute["A"] /\ mute["B"]
    /\ pending = {"B"}
    /\ lastCb = [kind |-> "OnNotify", redraw |-> TRUE]
    /\ cb = "send"

\* C25: a step of the notification thread, of the periodic thread or of the
\* WM_KILLFOCUS arm changes no mute state, no flag and no cache entry; an
\* on_paint changes no mute state and no flag and keeps every cache entry; an
\* on_lock or on_unlock calls SetMute only on the default device of a role,
\* and changes the mute state of no other device; a flag changes only in
\* on_lock or on_unlock, and a mute state only there or by the user
C25_OnlyLockUnlockChangeMute ==
    [][/\ procVars' # procVars =>
             UNCHANGED <<mute, mutedBy, devices, registered, unlock_mute_output,
                         unlock_mute_input>>
       /\ call'.name = "on_paint" =>
             /\ UNCHANGED <<mute, mutedBy, unlock_mute_output, unlock_mute_input>>
             /\ \A d \in DOMAIN devices : d \in DOMAIN devices' /\ devices'[d] = devices[d]
       /\ call'.name \in LockPolicyCalls =>
             \A d \in Devices :
                 (mute'[d] # mute[d] \/ <<"SetMute", d>> \in call'.os) =>
                     \E r \in Roles : defaultDev[r] = d
       /\ <<unlock_mute_output, unlock_mute_input>>' # <<unlock_mute_output, unlock_mute_input>>
             => call'.name \in LockPolicyCalls
       /\ mute' # mute => call'.name \in LockPolicyCalls \cup {"user_mute"}]_vars

\* an on_unlock unmuted A, the render default, while the OnNotify of the
\* lock was being handled: A2, which the user had muted, is still muted, and
\* the redraw of the callback and the tick of the periodic thread have left
\* the output flag to the on_unlock, which cleared it
C25_Witness ==
    /\ call.name = "on_unlock"
    /\ <<"SetMute", "A">> \in call.os
    /\ ~mute["A"]
    /\ mute["A2"] /\ mutedBy["A2"] = "user"
    /\ ~unlock_mute_output
    /\ cb = "invalidate"
    /\ tick = "send"

====
